---- MODULE Spec2Model ----
(***************************************************************************)
(* Buffer pool of piyokvs: the coordinator event loop (src/src/buffer.rs), *)
(* the clients (src/src/client.rs), the storage workers                    *)
(* (src/src/storage.rs) and the evicting cache the coordinator drives.     *)
(* The evicting cache (Cache::new(capacity, threthold), contains, touch,   *)
(* get_untouched, get_with_evicting, evicting_new, evicting_done,          *)
(* LruIterator) is not among the source files; it is modelled from         *)
(* section 4.1 of the specification.                                       *)
(***************************************************************************)
EXTENDS Integers, Sequences, FiniteSets, TLC

\* ------------------------------------------------------------------ sizes
\* Buffer::new(2, 1, io_req_tx)
Capacity == 2
Threshold == 1
\* number of records of the backing file (n_data)
NData == 2
\* number of client threads
NClients == 2
\* critical sections the clients run in all (the sum of their n_increments)
MaxOps == 3
\* storage worker threads (n_threads)
NWorkers == 3

Keys == 0 .. (NData - 1)
Clients == 1 .. NClients
Workers == 1 .. NWorkers

\* Option::None in a ResponseQueue: the writeback placeholder
None == <<0, 0>>
\* no slot / no victim
NoSlot == 0
\* a worker that holds no request
Idle == [op |-> "idle", key |-> 0, slot |-> 0]
\* the values the storage callers write are 0 .. MaxValue
MaxValue == 1
Values == 0 .. MaxValue
\* let mut data = u64::max_value(): what the reader's cell holds before a Read
NoValue == -1
\* res_tx.capacity() of an unbounded channel (None); a bounded one has 0 .. MaxCap
NoCap == -1
MaxCap == 1
Caps == {NoCap} \cup (0 .. MaxCap)
\* the reader has no Read outstanding / has completed none
NoRead == [key |-> 0, value |-> NoValue, after |-> FALSE, never |-> FALSE, some |-> FALSE]

VARIABLES
    cache,            \* Buffer.cache : entries, keys, lru list, freed slots
    data_res_queues,  \* Buffer.data_res_queues : key -> ResponseQueue
    io_req_keys,      \* Buffer.io_req_keys
    bpc,              \* where Buffer::start is
    polled,           \* 'handle_io found no response: start is in the blocking select
    wb,               \* write_back: slots still to visit
    wbWait,           \* write_back: a Write was sent, its recv is pending
    ioReq,            \* io_req channel: requests sent, not yet received
    worker,           \* the request each storage worker is executing
    ioRes,            \* io_res channel
    disk,             \* the backing file, one record per key
    cpc,              \* where each client is
    ckey,             \* the key a client asked for
    cn,               \* number of Lock requests a client has sent
    chandle,          \* the entry handle (slot) a client was sent
    pending,          \* history: Lock requests received and not yet granted, per key
    left,             \* history: value left at the last Unlock of each key
    lastDirty,        \* history: value left by the last section that set dirty
    count,            \* history: number of increments executed on each key
    via,              \* history: the handler that sent a client its handle
    relock,           \* history: keys locked again while their writeback is in flight
    stored,           \* history: keys of which a worker has executed a Write
    wn,               \* storage callers: number of Writes each writer has sent
    wrote,            \* storage callers: the value each key's Write carries
    acked,            \* storage callers: keys whose Write completion was received
    rd,               \* storage callers: the Read the reader has outstanding
    got,              \* storage callers: the last Read the reader completed
    n_threads,        \* Storage::start: the number of worker threads asked for
    res_cap,          \* Storage::start: res_tx.capacity()
    spc,              \* where Storage::start is
    spawned,          \* Storage::start: worker threads spawned so far
    lane,             \* an LruLane
    ret,              \* LruLane::index: the key of the last call and what it returned
    used,             \* history: the keys passed to LruLane::index, oldest use first
    entries,          \* LruCache.entries / SingleCache.entry: the Entry of each slot
    thread,           \* where each thread is in LruCache::lock, and what index returned
    call              \* the last method called on an Entry and how it ended

vars == <<cache, data_res_queues, io_req_keys, bpc, polled, wb, wbWait, ioReq, worker,
          ioRes, disk, cpc, ckey, cn, chandle, pending, left, lastDirty, count, via,
          relock, stored, wn, wrote, acked, rd, got, n_threads, res_cap, spc,
          spawned, lane, ret, used, entries, thread, call>>

bufVars == <<cache, data_res_queues, io_req_keys, bpc, polled, wb, wbWait>>
ioVars == <<ioReq, worker, ioRes, disk>>
clientVars == <<cpc, ckey, cn, chandle>>
histVars == <<pending, left, lastDirty, count, via, relock, stored>>
callerVars == <<wn, wrote, acked, rd, got>>
startVars == <<n_threads, res_cap, spc, spawned>>
laneVars == <<lane, ret, used>>
cacheVars == <<entries, thread, call>>

\* ------------------------------------------------------------ sequences
Remove(s, x) == SelectSeq(s, LAMBDA y : y # x)

Reverse(s) == [i \in 1 .. Len(s) |-> s[Len(s) + 1 - i]]

Max(S) == CHOOSE x \in S : \A y \in S : y <= x

\* ------------------------------------------------ evicting cache (4.1)
EmptyCache ==
    [entries |-> <<>>, keys |-> [k \in Keys |-> NoSlot], lru |-> <<>>, free |-> <<>>]

NewEntry(k) == [key |-> k, value |-> 0, dirty |-> FALSE, evicting |-> FALSE]

contains(ch, k) == ch.keys[k] # NoSlot

n_evicting(ch) == Cardinality({i \in 1 .. Len(ch.entries) : ch.entries[i].evicting})

\* move the slot of k to the head, clear its evicting flag
touch(ch, k) ==
    LET i == ch.keys[k]
    IN  [ch EXCEPT !.lru = <<i>> \o Remove(ch.lru, i),
                   !.entries[i].evicting = FALSE]

get_untouched(ch, k) == ch.keys[k]

\* scan from the tail toward the head, take the first slot that is not evicting
reclaim(ch) ==
    LET cand == {p \in 1 .. Len(ch.lru) : ~ch.entries[ch.lru[p]].evicting}
    IN  IF cand = {}
        THEN [cache |-> ch, victim |-> NoSlot]
        ELSE LET i == ch.lru[Max(cand)]
             IN  [cache |-> [ch EXCEPT !.entries[i].evicting = TRUE], victim |-> i]

\* a slot can be allocated: below capacity, or a freed slot awaits reuse
can_allocate(ch) == Len(ch.entries) < Capacity \/ ch.free # <<>>

get_with_evicting(ch, k) ==
    LET fresh == Len(ch.entries) < Capacity
        i == IF fresh THEN Len(ch.entries) + 1 ELSE Head(ch.free)
        ents == IF fresh
                THEN Append(ch.entries, NewEntry(k))
                ELSE [ch.entries EXCEPT ![i] =
                         [key |-> k, value |-> @.value, dirty |-> FALSE, evicting |-> FALSE]]
        ch1 == [entries |-> ents,
                keys |-> [ch.keys EXCEPT ![k] = i],
                lru |-> <<i>> \o ch.lru,
                free |-> IF fresh THEN ch.free ELSE Tail(ch.free)]
        r == IF Len(ch1.entries) = Capacity /\ n_evicting(ch1) < Threshold
             THEN reclaim(ch1)
             ELSE [cache |-> ch1, victim |-> NoSlot]
    IN  [cache |-> r.cache, slot |-> i, victim |-> r.victim]

evicting_new(ch) == reclaim(ch)

\* evicting_done that frees the slot but leaves the key in the map
evicting_done_keeps_key(ch, k) ==
    LET i == ch.keys[k]
    IN  [ch EXCEPT !.free = Append(@, i)]

evicting_done(ch, k) ==
    LET i == ch.keys[k]
    IN  [entries |-> [ch.entries EXCEPT ![i].evicting = FALSE],
         keys |-> [ch.keys EXCEPT ![k] = NoSlot],
         lru |-> Remove(ch.lru, i),
         free |-> Append(ch.free, i)]

\* LruIterator: the slots of the list, least recently used first
LruIterator(ch) == Reverse(ch.lru)

\* ------------------------------------------------ storage requests
IoRequest_read(key, slot) == [op |-> "Read", key |-> key, slot |-> slot]

IoRequest_write(key, slot) == [op |-> "Write", key |-> key, slot |-> slot]

\* IoResponse::new(req.io, result); the slot is kept for reference only
\* IoResponse::new that loses the op tag: every response is tagged Read
IoResponse_read_tag(req, result) ==
    [op |-> "Read", key |-> req.key, slot |-> req.slot, ok |-> result]

IoResponse(req, result) ==
    [op |-> req.op, key |-> req.key, slot |-> req.slot, ok |-> result]

\* ------------------------------------------------ response queues
HasQueue(queues, key) == key \in DOMAIN queues

\* data_res_queues.entry(key).or_insert(VecDeque::new())
entry_or_insert(queues, key) == IF HasQueue(queues, key) THEN queues[key] ELSE <<>>

\* a map update that deletes the queue when it has become empty
PutQueue_dropping_empty(queues, key, q) ==
    [k \in ((DOMAIN queues) \cup {key}) \ (IF q = <<>> THEN {key} ELSE {}) |->
        IF k = key THEN q ELSE queues[k]]

PutQueue(queues, key, q) ==
    [k \in (DOMAIN queues) \cup {key} |-> IF k = key THEN q ELSE queues[k]]

\* data_res_queues.remove(&key)
RemoveQueue(queues, key) == [k \in (DOMAIN queues) \ {key} |-> queues[k]]

\* variant: the emptiness of the queue is not looked at
can_be_locked_always(queue) == TRUE

\* let can_be_locked = queue.is_empty()
can_be_locked(queue) == queue = <<>>

\* variant: the reply channel is put at the front of the queue
push_back_at_front(queue, e) == <<e>> \o queue

\* queue.push_back(req.res_tx.clone())
push_back(queue, e) == Append(queue, e)

\* queue.front()
front(queue) == Head(queue)

\* a push_front that inserts the element twice
push_front_twice(queue, e) == <<e, e>> \o queue

\* a push_front that puts the element behind the waiting clients
push_front_at_back(queue, e) == Append(queue, e)

\* queue.push_front(None)
push_front(queue, e) == <<e>> \o queue

\* a client blocked in res_rx.recv() on the channel the element names
Receiving(e) == e # None /\ cpc[e[1]] = "waiting" /\ cn[e[1]] = e[2]

\* ------------------------------------------------ outcome of a handler
Outcome(ch, queues, keys, pc, reqs, g, s) ==
    [cache |-> ch, queues |-> queues, keys |-> keys, bpc |-> pc,
     reqs |-> reqs, grant |-> g, slot |-> s]

\* unwrap() on None, unreachable!()
Panic(ch, queues, keys) == Outcome(ch, queues, keys, "panicked", <<>>, None, NoSlot)

\* res.send(..) on a zero-capacity channel nobody receives from
Blocked(ch, queues, keys) == Outcome(ch, queues, keys, "blocked", <<>>, None, NoSlot)

\* ------------------------------------------------ request_eviction
request_eviction(ch, queues, keys, victim) ==
    LET vkey == ch.entries[victim].key
    IN  IF ~HasQueue(queues, vkey)
        THEN Panic(ch, queues, keys)
        ELSE Outcome(ch,
                     PutQueue(queues, vkey, push_front(queues[vkey], None)),
                     keys \cup {vkey},
                     bpc,
                     <<IoRequest_write(vkey, victim)>>,
                     None, NoSlot)

\* ------------------------------------------------ handle_data_req
\* Lock(key) sent by client c on its n-th reply channel
handle_data_req_Lock(c, n, key) ==
    LET me == <<c, n>>
        queue == entry_or_insert(data_res_queues, key)
        queues1 == PutQueue(data_res_queues, key, push_back(queue, me))
    IN  IF can_be_locked(queue)
        THEN IF contains(cache, key)
             THEN Outcome(touch(cache, key), queues1, io_req_keys, bpc, <<>>,
                          me, get_untouched(cache, key))
             ELSE IF ~can_allocate(cache)
                  THEN Panic(cache, queues1, io_req_keys)
                  ELSE LET r == get_with_evicting(cache, key)
                           ev == IF r.victim # NoSlot
                                 THEN request_eviction(r.cache, queues1, io_req_keys, r.victim)
                                 ELSE Outcome(r.cache, queues1, io_req_keys, bpc, <<>>, None, NoSlot)
                       IN  IF ev.bpc = "panicked"
                           THEN ev
                           ELSE Outcome(ev.cache, ev.queues, ev.keys \cup {key}, bpc,
                                        ev.reqs \o <<IoRequest_read(key, r.slot)>>,
                                        None, NoSlot)
        ELSE IF ~contains(cache, key)
             THEN Panic(cache, queues1, io_req_keys)
             ELSE Outcome(touch(cache, key), queues1, io_req_keys, bpc, <<>>, None, NoSlot)

handle_data_req_Unlock(key) ==
    IF ~HasQueue(data_res_queues, key) \/ entry_or_insert(data_res_queues, key) = <<>>
    THEN Panic(cache, data_res_queues, io_req_keys)
    ELSE LET queue == Tail(data_res_queues[key])
             queues1 == PutQueue(data_res_queues, key, queue)
         IN  IF queue # <<>> /\ front(queue) # None
             THEN IF ~contains(cache, key)
                  THEN Panic(cache, queues1, io_req_keys)
                  ELSE IF Receiving(front(queue))
                       THEN Outcome(cache, queues1, io_req_keys, bpc, <<>>,
                                    front(queue), get_untouched(cache, key))
                       ELSE Blocked(cache, queues1, io_req_keys)
             ELSE Outcome(cache, queues1, io_req_keys, bpc, <<>>, None, NoSlot)

\* ------------------------------------------------ handle_io_res
handle_io_res_Read(key) ==
    LET keys1 == io_req_keys \ {key}
    IN  IF ~HasQueue(data_res_queues, key) \/ entry_or_insert(data_res_queues, key) = <<>>
        THEN Panic(cache, data_res_queues, keys1)
        ELSE LET res == front(data_res_queues[key])
             IN  IF res = None \/ ~contains(cache, key)
                 THEN Panic(cache, data_res_queues, keys1)
                 ELSE IF Receiving(res)
                      THEN Outcome(cache, data_res_queues, keys1, bpc, <<>>,
                                   res, get_untouched(cache, key))
                      ELSE Blocked(cache, data_res_queues, keys1)

handle_io_res_Write(key) ==
    LET keys1 == io_req_keys \ {key}
    IN  IF ~HasQueue(data_res_queues, key) \/ entry_or_insert(data_res_queues, key) = <<>>
        THEN Panic(cache, data_res_queues, keys1)
        ELSE LET queue == Tail(data_res_queues[key])
                 queues1 == PutQueue(data_res_queues, key, queue)
             IN  IF queue = <<>>
                 THEN IF ~contains(cache, key)
                      THEN Panic(cache, queues1, keys1)
                      ELSE Outcome(evicting_done(cache, key), RemoveQueue(queues1, key),
                                   keys1, bpc, <<>>, None, NoSlot)
                 ELSE IF front(queue) = None \/ ~contains(cache, key)
                      THEN Panic(cache, queues1, keys1)
                      ELSE IF ~Receiving(front(queue))
                           THEN Blocked(cache, queues1, keys1)
                           ELSE LET r == evicting_new(cache)
                                    ev == IF r.victim # NoSlot
                                          THEN request_eviction(r.cache, queues1, keys1, r.victim)
                                          ELSE Outcome(r.cache, queues1, keys1, bpc, <<>>, None, NoSlot)
                                IN  IF ev.bpc = "panicked"
                                    THEN [ev EXCEPT !.grant = front(queue),
                                                    !.slot = get_untouched(cache, key)]
                                    ELSE Outcome(ev.cache, ev.queues, ev.keys, bpc, ev.reqs,
                                                 front(queue), get_untouched(cache, key))

\* res.result.unwrap() comes first in both arms
handle_io_res(res) ==
    IF ~res.ok
    THEN Panic(cache, data_res_queues, io_req_keys)
    ELSE IF res.op = "Read"
         THEN handle_io_res_Read(res.key)
         ELSE handle_io_res_Write(res.key)

\* ------------------------------------------------ applying an outcome
\* the coordinator can take its next event: it is in no blocking send
CanReceive == ioReq = <<>>

Apply(o) ==
    /\ cache' = o.cache
    /\ data_res_queues' = o.queues
    /\ io_req_keys' = o.keys
    /\ bpc' = o.bpc
    /\ ioReq' = ioReq \o o.reqs

\* the client whose reply channel received the handle leaves recv()
Granted(o, x) == o.grant # None /\ o.grant[1] = x

\* ------------------------------------------------ LruLane (cache.rs)
\* Option<usize>::None
Nil == -1
\* the capacities and the keys an LruLane is exercised with
LaneMaxCap == 3
LaneCaps == 1 .. LaneMaxCap
NLaneKeys == 4
LaneKeys == 0 .. NLaneKeys - 1

\* entries.len(): slots are numbered from 0
entries_len(l) == Cardinality(DOMAIN l.entries)

\* Option::unwrap on None, or an index out of range: the call panics
unwrap_none(l) == [l EXCEPT !.panicked = TRUE]

LruLaneEntry_new(key) == [key |-> key, next |-> Nil, prev |-> Nil]

LruLane_new(capacity) ==
    [capacity |-> capacity,
     keys |-> [k \in {} |-> 0],
     entries |-> [i \in {} |-> LruLaneEntry_new(0)],
     head |-> Nil,
     tail |-> Nil,
     panicked |-> FALSE]

\* a pop_back that takes the most recently used slot
LruLane_pop_back_head(l) ==
    IF l.head = Nil
    THEN [lane |-> unwrap_none(l), i |-> Nil]
    ELSE [lane |-> [l EXCEPT !.head = l.entries[l.head].next], i |-> l.head]

\* LruLane::pop_back: the new tail's next is left as it was
LruLane_pop_back(l) ==
    IF l.tail = Nil
    THEN [lane |-> unwrap_none(l), i |-> Nil]
    ELSE [lane |-> [l EXCEPT !.tail = l.entries[l.tail].prev], i |-> l.tail]

\* LruLane::push_front
LruLane_push_front(l, i) ==
    LET linked ==
            IF l.tail = Nil
            THEN [l EXCEPT !.tail = i]
            ELSE LET e == [l.entries EXCEPT ![i].next = l.head, ![i].prev = Nil]
                 IN [l EXCEPT !.entries = IF l.head # Nil
                                          THEN [e EXCEPT ![l.head].prev = i]
                                          ELSE e]
    IN [linked EXCEPT !.head = i]

\* an unlink that leaves the prev link of the successor as it was
LruLane_unlink_next_only(l, i) ==
    LET next == l.entries[i].next
        prev == l.entries[i].prev
    IN IF l.head = Nil THEN unwrap_none(l)
       ELSE IF i # l.head /\ prev = Nil THEN unwrap_none(l)
       ELSE LET l1 == IF i = l.head THEN [l EXCEPT !.head = next]
                      ELSE [l EXCEPT !.entries[prev].next = next]
            IN IF l1.tail = Nil THEN unwrap_none(l1)
               ELSE IF i = l1.tail THEN [l1 EXCEPT !.tail = prev]
               ELSE l1

\* LruLane::unlink
LruLane_unlink(l, i) ==
    LET next == l.entries[i].next
        prev == l.entries[i].prev
    IN IF l.head = Nil THEN unwrap_none(l)
       ELSE IF i # l.head /\ prev = Nil THEN unwrap_none(l)
       ELSE LET l1 == IF i = l.head THEN [l EXCEPT !.head = next]
                      ELSE [l EXCEPT !.entries[prev].next = next]
            IN IF l1.tail = Nil THEN unwrap_none(l1)
               ELSE IF i = l1.tail THEN [l1 EXCEPT !.tail = prev]
               ELSE IF next = Nil THEN unwrap_none(l1)
               ELSE [l1 EXCEPT !.entries[next].prev = prev]

\* LruLane::touch
LruLane_touch(l, i) ==
    IF l.head = Nil THEN unwrap_none(l)
    ELSE IF i # l.head
         THEN LET unlinked == LruLane_unlink(l, i)
              IN IF unlinked.panicked THEN unlinked
                 ELSE LruLane_push_front(unlinked, i)
         ELSE l

\* HashMap::insert and HashMap::remove on keys
keys_insert(keys, key, i) ==
    [k \in DOMAIN keys \cup {key} |-> IF k = key THEN i ELSE keys[k]]
keys_remove(keys, key) == [k \in DOMAIN keys \ {key} |-> keys[k]]

\* LruLane::index: the lane after the call and the pair it returns
LruLane_index(l, key) ==
    IF key \in DOMAIN l.keys
    THEN [lane |-> LruLane_touch(l, l.keys[key]),
          i |-> l.keys[key], uninitialized |-> FALSE]
    ELSE IF entries_len(l) = l.capacity
         THEN LET popped == LruLane_pop_back(l)
                  i == popped.i
              IN IF popped.lane.panicked
                 THEN [lane |-> popped.lane, i |-> Nil, uninitialized |-> FALSE]
                 ELSE IF popped.lane.entries[i].key \notin DOMAIN popped.lane.keys
                 THEN [lane |-> unwrap_none(popped.lane), i |-> Nil,
                       uninitialized |-> FALSE]
                 ELSE LET rekeyed ==
                              [popped.lane EXCEPT
                                  !.keys = keys_remove(@, popped.lane.entries[i].key),
                                  !.entries[i].key = key]
                          pushed == LruLane_push_front(rekeyed, i)
                      IN [lane |-> [pushed EXCEPT !.keys = keys_insert(@, key, i)],
                          i |-> i, uninitialized |-> FALSE]
         ELSE LET n == entries_len(l)
                  grown == [l EXCEPT !.entries =
                               [j \in 0 .. n |-> IF j = n THEN LruLaneEntry_new(key)
                                                          ELSE l.entries[j]]]
                  pushed == LruLane_push_front(grown, n)
              IN [lane |-> [pushed EXCEPT !.keys = keys_insert(@, key, n)],
                  i |-> n, uninitialized |-> TRUE]

\* LruLaneIterator::new and next, collected: the slots from tail along prev.
\* A lane of n slots whose links were circular would yield n + 1 slots here.
RECURSIVE LruLaneIterator_collect(_, _, _)
LruLaneIterator_collect(l, pos, more) ==
    IF pos = Nil \/ more = 0
    THEN <<>>
    ELSE <<pos>> \o LruLaneIterator_collect(l, l.entries[pos].prev, more - 1)

LruLaneIterator(l) == LruLaneIterator_collect(l, l.tail, entries_len(l) + 1)

\* no call of index has returned yet
NoRet == [key |-> Nil, i |-> Nil, uninitialized |-> FALSE, calls |-> 0]

\* LruLane::new(capacity), not yet used
LaneInit(capacity) ==
    /\ lane = LruLane_new(capacity)
    /\ ret = NoRet
    /\ used = <<>>

\* ------------------------------------------------ Entry (entry.rs), prepare_entry (cache.rs)
\* the values an Entry holds and the threads that lock an LruCache
EntryMaxValue == 1
EntryValues == 0 .. EntryMaxValue
NThreads == 2
Threads == 1 .. NThreads

\* enum State<K>
Uninitialized == [tag |-> "Uninitialized", key |-> Nil]
Unloaded == [tag |-> "Unloaded", key |-> Nil]
Fresh == [tag |-> "Fresh", key |-> Nil]
Dirty == [tag |-> "Dirty", key |-> Nil]
Stale(key) == [tag |-> "Stale", key |-> key]

\* Entry::default; locked is the Mutex the caches keep each Entry in
Entry_default == [key |-> 0, value |-> 0, state |-> Uninitialized, locked |-> FALSE]

\* the outcome of a method that returns, and of one that panics: a panic
\* leaves the entry as the statements before it made it
returns(entry) == [entry |-> entry, panicked |-> FALSE]
panics(entry) == [entry |-> entry, panicked |-> TRUE]

\* Lazy::init of Entry, with the test's Lazy for i32 (cache.rs 274-278)
Entry_init(entry) == [entry EXCEPT !.value = 0, !.state = Unloaded]

\* Entry::as_ptr; v is what is stored through the pointer, if anything
Entry_as_ptr(entry, v) ==
    IF entry.state.tag \in {"Unloaded", "Dirty", "Stale"}
    THEN returns([entry EXCEPT !.state = Fresh, !.value = v])
    ELSE panics(entry)

\* Entry::as_ref
Entry_as_ref(entry) ==
    IF entry.state.tag \in {"Fresh", "Dirty"}
    THEN returns(entry)
    ELSE panics(entry)

\* an as_mut that does not look at the state
Entry_as_mut_unchecked(entry, v) ==
    returns([entry EXCEPT !.state = Dirty, !.value = v])

\* Entry::as_mut; v is what is stored through the reference
Entry_as_mut(entry, v) ==
    IF entry.state.tag \in {"Fresh", "Dirty"}
    THEN returns([entry EXCEPT !.state = Dirty, !.value = v])
    ELSE panics(entry)

\* a prepare_entry that marks a dirty entry of another key as unloaded
prepare_entry_dropping_dirty(entry, key) ==
    CASE entry.state.tag = "Uninitialized" ->
            returns([Entry_init(entry) EXCEPT !.key = key])
      [] entry.state.tag = "Unloaded" -> panics(entry)
      [] entry.state.tag = "Fresh" ->
            IF entry.key # key
            THEN returns([entry EXCEPT !.state = Unloaded, !.key = key])
            ELSE returns(entry)
      [] entry.state.tag = "Dirty" ->
            IF entry.key # key
            THEN returns([entry EXCEPT !.state = Unloaded, !.key = key])
            ELSE returns(entry)
      [] entry.state.tag = "Stale" -> panics(entry)

\* prepare_entry
prepare_entry(entry, key) ==
    CASE entry.state.tag = "Uninitialized" ->
            returns([Entry_init(entry) EXCEPT !.key = key])
      [] entry.state.tag = "Unloaded" -> panics(entry)
      [] entry.state.tag = "Fresh" ->
            IF entry.key # key
            THEN returns([entry EXCEPT !.state = Unloaded, !.key = key])
            ELSE returns(entry)
      [] entry.state.tag = "Dirty" ->
            IF entry.key # key
            THEN returns([entry EXCEPT !.state = Stale(entry.key), !.key = key])
            ELSE returns(entry)
      [] entry.state.tag = "Stale" -> panics(entry)

\* no thread is in LruCache::lock or holds a guard
NoThread == [pc |-> "idle", key |-> Nil, i |-> Nil, uninitialized |-> FALSE]

\* no method of an Entry was called yet
NoCall == [op |-> "none", i |-> Nil, key |-> Nil, panicked |-> FALSE, calls |-> 0]

\* LruCache::new(capacity): capacity default entries (the lane is LaneInit)
CacheInit(capacity) ==
    /\ entries = [i \in 0 .. capacity - 1 |-> Entry_default]
    /\ thread = [t \in Threads |-> NoThread]
    /\ call = NoCall

\* ------------------------------------------------ initial state
\* a file that Storage::new filled with a nonzero pattern
write_ones == [k \in Keys |-> 1]

\* Storage::new: the file holds n_data zeroed records
write_zeros == [k \in Keys |-> 0]

\* Buffer::new and a running Storage::start(n, ..) whose response channel has
\* capacity cap
InitWith(n, cap) ==
    /\ cache = EmptyCache
    /\ data_res_queues = [k \in {} |-> <<>>]
    /\ io_req_keys = {}
    /\ bpc = "main"
    /\ polled = FALSE
    /\ wb = <<>>
    /\ wbWait = FALSE
    /\ ioReq = <<>>
    /\ worker = [w \in Workers |-> Idle]
    /\ ioRes = <<>>
    /\ disk = write_zeros
    /\ cpc = [c \in Clients |-> "idle"]
    /\ ckey = [c \in Clients |-> 0]
    /\ cn = [c \in Clients |-> 0]
    /\ chandle = [c \in Clients |-> NoSlot]
    /\ pending = [k \in Keys |-> <<>>]
    /\ left = [k \in Keys |-> 0]
    /\ lastDirty = [k \in Keys |-> 0]
    /\ count = [k \in Keys |-> 0]
    /\ via = [c \in Clients |-> "none"]
    /\ relock = {}
    /\ stored = {}
    /\ wn = [c \in Clients |-> 0]
    /\ wrote = [k \in Keys |-> NoValue]
    /\ acked = {}
    /\ rd = NoRead
    /\ got = NoRead
    /\ n_threads = n
    /\ res_cap = cap
    /\ spc = "join"
    /\ spawned = n

\* the tests of buffer.rs: an unbounded response channel
Init == InitWith(NWorkers, NoCap) /\ LaneInit(Capacity) /\ CacheInit(Capacity)

\* ------------------------------------------------ clients
RECURSIVE Sum(_, _)
Sum(f, S) == IF S = {} THEN 0 ELSE LET x == CHOOSE y \in S : TRUE IN f[x] + Sum(f, S \ {x})

\* Lock requests sent so far by all clients
TotalOps == Sum(cn, Clients)

\* req_tx.send(DataRequest::lock(key, res_tx)), received by the coordinator
Lock(c, key) ==
    /\ bpc = "main" /\ CanReceive /\ polled
    /\ cpc[c] = "idle" /\ TotalOps < MaxOps
    /\ polled' = FALSE
    /\ LET n == cn[c] + 1
           o == handle_data_req_Lock(c, n, key)
       IN  /\ Apply(o)
           /\ cn' = [cn EXCEPT ![c] = n]
           /\ ckey' = [ckey EXCEPT ![c] = key]
           /\ cpc' = [cpc EXCEPT ![c] = IF Granted(o, c) THEN "granted" ELSE "waiting"]
           /\ chandle' = [chandle EXCEPT ![c] = o.slot]
           /\ pending' = [pending EXCEPT ![key] =
                             IF Granted(o, c) THEN @ ELSE Append(@, <<c, n>>)]
           /\ via' = [via EXCEPT ![c] = IF Granted(o, c) THEN "lock" ELSE "none"]
           /\ relock' = IF entry_or_insert(data_res_queues, key) # <<>>
                             /\ front(entry_or_insert(data_res_queues, key)) = None
                          THEN relock \cup {key}
                          ELSE relock
    /\ UNCHANGED <<wb, wbWait, worker, ioRes, disk, left, lastDirty, count,
                   stored, callerVars, startVars, laneVars, cacheVars>>

\* the critical section: entry.dirty = true; entry.value += 1 (or a read only)
Section(c, write) ==
    /\ cpc[c] = "granted"
    /\ cpc' = [cpc EXCEPT ![c] = "unlocking"]
    /\ LET i == chandle[c]
           v == cache.entries[i].value + 1
       IN  IF write
           THEN /\ cache' = [cache EXCEPT !.entries[i].dirty = TRUE,
                                          !.entries[i].value = v]
                /\ lastDirty' = [lastDirty EXCEPT ![ckey[c]] = v]
                /\ count' = [count EXCEPT ![ckey[c]] = @ + 1]
           ELSE UNCHANGED <<cache, lastDirty, count>>
    /\ UNCHANGED <<data_res_queues, io_req_keys, bpc, polled, wb, wbWait, ioReq,
                   worker, ioRes, disk, ckey, cn, chandle, pending, left, via, relock,
                   stored, callerVars, startVars, laneVars, cacheVars>>

\* req_tx.send(DataRequest::unlock(key)), received by the coordinator
Unlock(c) ==
    /\ bpc = "main" /\ CanReceive /\ polled
    /\ cpc[c] = "unlocking"
    /\ polled' = FALSE
    /\ LET key == ckey[c]
           o == handle_data_req_Unlock(key)
       IN  /\ Apply(o)
           /\ cpc' = [x \in Clients |->
                         IF x = c THEN "idle"
                         ELSE IF Granted(o, x) THEN "granted" ELSE cpc[x]]
           /\ chandle' = [x \in Clients |->
                             IF x = c THEN NoSlot
                             ELSE IF Granted(o, x) THEN o.slot ELSE chandle[x]]
           /\ pending' = [pending EXCEPT ![key] = Remove(@, o.grant)]
           /\ left' = [left EXCEPT ![key] = cache.entries[chandle[c]].value]
           /\ via' = [x \in Clients |->
                         IF x = c THEN "none"
                         ELSE IF Granted(o, x) THEN "unlock" ELSE via[x]]
    /\ ckey' = [ckey EXCEPT ![c] = 0]
    /\ UNCHANGED <<wb, wbWait, worker, ioRes, disk, cn, lastDirty, count, relock,
                   stored, callerVars, startVars, laneVars, cacheVars>>

\* the client returns from start() and drops its sender
Finish(c) ==
    /\ cpc[c] = "idle"
    /\ cpc' = [cpc EXCEPT ![c] = "done"]
    /\ UNCHANGED <<bufVars, ioVars, ckey, cn, chandle, histVars, callerVars, startVars, laneVars, cacheVars>>

\* ------------------------------------------------ storage workers
\* read_at: the record at offset key * 8 of the file
read_at(file, key) == file[key]

\* write_at without its seek: the record at offset 0 is replaced
write_at_unsought(file, key, v) == [file EXCEPT ![0] = v]

\* write_at: the file with the record at offset key * 8 replaced
write_at(file, key, v) == [file EXCEPT ![key] = v]

\* for mut req in req_rx; the workers are interchangeable, so of the idle ones
\* the first is taken to be the receiver
WorkerRecv(w) ==
    /\ w <= spawned
    /\ worker[w] = Idle
    /\ \A x \in Workers : x < w => worker[x] # Idle
    /\ ioReq # <<>>
    /\ worker' = [worker EXCEPT ![w] = Head(ioReq)]
    /\ ioReq' = Tail(ioReq)
    /\ UNCHANGED <<bufVars, ioRes, disk, clientVars, histVars, callerVars, startVars, laneVars, cacheVars>>

\* the thread that receives the responses is in a recv on the response
\* channel: the coordinator in its select, its drain loop or write_back's
\* recv and in no blocking send; the main thread of the storage's direct
\* callers when its own send has returned
ReceiverReady ==
    IF bpc = "absent"
    THEN \A i \in 1 .. Len(ioReq) : ioReq[i].op # "Read"
    ELSE CanReceive /\ (bpc \in {"main", "drain"} \/ (bpc = "write_back" /\ wbWait))

\* res_tx.send returns: the channel is unbounded, or has room; on a channel
\* of capacity 0 the send returns when the receiver takes the response
CanSendRes ==
    \/ res_cap = NoCap
    \/ res_cap = 0 /\ ioRes = <<>> /\ ReceiverReady
    \/ res_cap > 0 /\ Len(ioRes) < res_cap

\* read_at / write_at through the pointer, then res_tx.send(response)
WorkerExec(w) ==
    /\ worker[w] # Idle
    /\ CanSendRes
    /\ LET req == worker[w]
       IN  /\ IF req.op = "Read"
              THEN /\ cache' = [cache EXCEPT !.entries[req.slot].value = read_at(disk, req.key)]
                   /\ disk' = disk
              ELSE /\ disk' = write_at(disk, req.key, cache.entries[req.slot].value)
                   /\ cache' = cache
           /\ ioRes' = Append(ioRes, IoResponse(req, TRUE))
           /\ stored' = IF req.op = "Write" THEN stored \cup {req.key} ELSE stored
    /\ worker' = [worker EXCEPT ![w] = Idle]
    /\ polled' = IF res_cap = 0 THEN FALSE ELSE polled
    /\ UNCHANGED <<data_res_queues, io_req_keys, bpc, wb, wbWait, ioReq, clientVars,
                   pending, left, lastDirty, count, via, relock, callerVars, startVars, laneVars, cacheVars>>

\* the seek, read or write returns Err: nothing is transferred, the response
\* carries the failed result
WorkerFail(w) ==
    /\ worker[w] # Idle
    /\ CanSendRes
    /\ ioRes' = Append(ioRes, IoResponse(worker[w], FALSE))
    /\ worker' = [worker EXCEPT ![w] = Idle]
    /\ polled' = IF res_cap = 0 THEN FALSE ELSE polled
    /\ UNCHANGED <<cache, data_res_queues, io_req_keys, bpc, wb, wbWait, ioReq, disk,
                   clientVars, histVars, callerVars, startVars, laneVars, cacheVars>>

\* ------------------------------------------------ Buffer::start
\* 'handle_io: no response is available (default => break 'handle_io); start
\* goes on to the select that blocks on both channels
Poll ==
    /\ bpc = "main" /\ CanReceive /\ ~polled
    /\ ioRes = <<>>
    /\ polled' = TRUE
    /\ UNCHANGED <<cache, data_res_queues, io_req_keys, bpc, wb, wbWait, ioVars,
                   clientVars, histVars, callerVars, startVars, laneVars, cacheVars>>

\* recv(io_res_rx, io_res) => self.handle_io_res(io_res.unwrap()), in 'handle_io,
\* in the blocking select, or in the loop that awaits the issued I/Os
HandleIoRes ==
    /\ bpc \in {"main", "drain"} /\ CanReceive
    /\ bpc = "drain" => io_req_keys # {}
    /\ ioRes # <<>>
    /\ LET res == Head(ioRes)
           o == handle_io_res(res)
       IN  /\ cache' = o.cache
           /\ data_res_queues' = o.queues
           /\ io_req_keys' = o.keys
           /\ bpc' = o.bpc
           /\ ioReq' = ioReq \o o.reqs
           /\ cpc' = [x \in Clients |-> IF Granted(o, x) THEN "granted" ELSE cpc[x]]
           /\ chandle' = [x \in Clients |-> IF Granted(o, x) THEN o.slot ELSE chandle[x]]
           /\ pending' = [pending EXCEPT ![res.key] = Remove(@, o.grant)]
           /\ via' = [x \in Clients |->
                         IF Granted(o, x)
                         THEN (IF res.op = "Read" THEN "read" ELSE "write")
                         ELSE via[x]]
           /\ relock' = IF res.op = "Write" THEN relock \ {res.key} ELSE relock
    /\ ioRes' = Tail(ioRes)
    /\ polled' = FALSE
    /\ UNCHANGED <<wb, wbWait, worker, disk, ckey, cn, left, lastDirty, count,
                   stored, callerVars, startVars, laneVars, cacheVars>>

\* recv(data_req_rx) yields None: every sender was dropped; break 'main
Close ==
    /\ bpc = "main" /\ CanReceive /\ polled
    /\ \A c \in Clients : cpc[c] = "done"
    /\ bpc' = "drain"
    /\ UNCHANGED <<cache, data_res_queues, io_req_keys, polled, wb, wbWait, ioVars,
                   clientVars, histVars, callerVars, startVars, laneVars, cacheVars>>

\* while !self.io_req_keys.is_empty() ends; write_back starts its iteration
Drained ==
    /\ bpc = "drain"
    /\ io_req_keys = {}
    /\ bpc' = "write_back"
    /\ wb' = LruIterator(cache)
    /\ UNCHANGED <<cache, data_res_queues, io_req_keys, polled, wbWait, ioVars,
                   clientVars, histVars, callerVars, startVars, laneVars, cacheVars>>

\* if entry.dirty
write_back_dirty(ch, i) == ch.entries[i].dirty

\* one step of the for loop of write_back: skip, send a Write, or return
write_back_next ==
    /\ bpc = "write_back" /\ ~wbWait /\ CanReceive
    /\ IF wb = <<>>
       THEN /\ bpc' = "returned"
            /\ UNCHANGED <<wb, wbWait, ioReq>>
       ELSE IF write_back_dirty(cache, Head(wb))
            THEN /\ ioReq' = Append(ioReq,
                                    IoRequest_write(cache.entries[Head(wb)].key, Head(wb)))
                 /\ wbWait' = TRUE
                 /\ UNCHANGED <<bpc, wb>>
            ELSE /\ wb' = Tail(wb)
                 /\ UNCHANGED <<bpc, wbWait, ioReq>>
    /\ UNCHANGED <<cache, data_res_queues, io_req_keys, polled, worker, ioRes, disk,
                   clientVars, histVars, callerVars, startVars, laneVars, cacheVars>>

\* let res = io_res_rx.recv().unwrap(); res.result.unwrap()
write_back_recv ==
    /\ bpc = "write_back" /\ wbWait /\ CanReceive
    /\ ioRes # <<>>
    /\ ioRes' = Tail(ioRes)
    /\ wbWait' = FALSE
    /\ wb' = Tail(wb)
    /\ bpc' = IF Head(ioRes).ok THEN bpc ELSE "panicked"
    /\ UNCHANGED <<cache, data_res_queues, io_req_keys, polled, ioReq, worker,
                   disk, clientVars, histVars, callerVars, startVars, laneVars, cacheVars>>

Next ==
    \/ \E c \in Clients, key \in Keys : Lock(c, key)
    \/ \E c \in Clients, write \in BOOLEAN : Section(c, write)
    \/ \E c \in Clients : Unlock(c)
    \/ \E c \in Clients : Finish(c)
    \/ \E w \in Workers : WorkerRecv(w)
    \/ \E w \in Workers : WorkerExec(w)
    \/ Poll
    \/ HandleIoRes
    \/ Close
    \/ Drained
    \/ write_back_next
    \/ write_back_recv

Spec == Init /\ [][Next]_vars

\* the same program over a storage whose reads and writes can fail
NextFail ==
    \/ Next
    \/ \E w \in Workers : WorkerFail(w)

SpecFail == Init /\ [][NextFail]_vars

\* ------------------------------------------------ callers of the storage alone
\* The storage driven directly, as its tests drive it: writer threads that
\* each write their own keys (spawn_writer), and the main thread, which
\* receives every response and reads keys back (assert_data).  The callers'
\* cells are entries 1 .. NData + 1: one per key for the writers' data, the
\* last for the reader's data.
ReaderCell == NData + 1

\* the writers write disjoint sets of keys
Owner(k) == (k % NClients) + 1
WriterKey(c, j) == (c - 1) + (j - 1) * NClients

InitStorage ==
    /\ cache = [EmptyCache EXCEPT !.entries =
                    [i \in 1 .. ReaderCell |->
                        IF i = ReaderCell THEN [NewEntry(0) EXCEPT !.value = NoValue]
                                          ELSE NewEntry(i - 1)]]
    /\ data_res_queues = [k \in {} |-> <<>>]
    /\ io_req_keys = {}
    /\ bpc = "absent"
    /\ polled = FALSE
    /\ wb = <<>>
    /\ wbWait = FALSE
    /\ ioReq = <<>>
    /\ worker = [w \in Workers |-> Idle]
    /\ ioRes = <<>>
    /\ disk = write_zeros
    /\ cpc = [c \in Clients |-> "idle"]
    /\ ckey = [c \in Clients |-> 0]
    /\ cn = [c \in Clients |-> 0]
    /\ chandle = [c \in Clients |-> NoSlot]
    /\ pending = [k \in Keys |-> <<>>]
    /\ left = [k \in Keys |-> 0]
    /\ lastDirty = [k \in Keys |-> 0]
    /\ count = [k \in Keys |-> 0]
    /\ via = [c \in Clients |-> "none"]
    /\ relock = {}
    /\ stored = {}
    /\ wn = [c \in Clients |-> 0]
    /\ wrote = [k \in Keys |-> NoValue]
    /\ acked = {}
    /\ rd = NoRead
    /\ got = NoRead
    /\ n_threads \in 0 .. NWorkers
    /\ res_cap \in Caps
    /\ spc = "assert"
    /\ spawned = 0
    /\ LaneInit(Capacity) /\ CacheInit(Capacity)

\* a Storage::start that accepts one thread whatever the response channel
start_precondition_any_channel(n, cap) == n >= 1

\* assert!((n_threads == 1 && res_tx.capacity().is_none()) || n_threads > 1)
start_precondition(n, cap) == (n = 1 /\ cap = NoCap) \/ n > 1

\* Storage::start up to its assertion
start_assert ==
    /\ spc = "assert"
    /\ spc' = IF start_precondition(n_threads, res_cap) THEN "spawn" ELSE "panicked"
    /\ UNCHANGED <<bufVars, ioVars, clientVars, histVars, callerVars, laneVars, cacheVars, n_threads,
                   res_cap, spawned>>

\* for _ in 0..n_threads: thread::spawn; after the loop start joins the threads
start_spawn ==
    /\ spc = "spawn"
    /\ IF spawned < n_threads
       THEN spawned' = spawned + 1 /\ spc' = spc
       ELSE spawned' = spawned /\ spc' = "join"
    /\ UNCHANGED <<bufVars, ioVars, clientVars, histVars, callerVars, laneVars, cacheVars, n_threads,
                   res_cap>>

\* spawn_writer: req_tx.send(IoRequest::write(key, &mut data[i])); the send
\* before it has returned, that is, a worker received that request
WriterSend(c, v) ==
    /\ bpc = "absent"
    /\ WriterKey(c, wn[c] + 1) \in Keys
    /\ \A i \in 1 .. Len(ioReq) : ~(ioReq[i].op = "Write" /\ Owner(ioReq[i].key) = c)
    /\ LET k == WriterKey(c, wn[c] + 1)
       IN  /\ cache' = [cache EXCEPT !.entries[k + 1].value = v]
           /\ ioReq' = Append(ioReq, IoRequest_write(k, k + 1))
           /\ wrote' = [wrote EXCEPT ![k] = v]
    /\ wn' = [wn EXCEPT ![c] = @ + 1]
    /\ UNCHANGED <<data_res_queues, io_req_keys, bpc, polled, wb, wbWait, worker,
                   ioRes, disk, clientVars, histVars, acked, rd, got, startVars, laneVars, cacheVars>>

\* assert_data: let mut data = u64::max_value();
\* req_tx.send(IoRequest::read(key, &mut data))
ReaderSend(k) ==
    /\ bpc = "absent"
    /\ ~rd.some
    /\ res_cap = 0 => ioRes = <<>>
    /\ cache' = [cache EXCEPT !.entries[ReaderCell].value = NoValue]
    /\ ioReq' = Append(ioReq, IoRequest_read(k, ReaderCell))
    /\ rd' = [key |-> k, value |-> NoValue, after |-> k \in acked, never |-> FALSE,
              some |-> TRUE]
    /\ UNCHANGED <<data_res_queues, io_req_keys, bpc, polled, wb, wbWait, worker,
                   ioRes, disk, clientVars, histVars, wn, wrote, acked, got, startVars, laneVars, cacheVars>>

\* res_rx.recv().unwrap() in the main thread, once its own send has returned
MainRecv ==
    /\ bpc = "absent"
    /\ \A i \in 1 .. Len(ioReq) : ioReq[i].op # "Read"
    /\ ioRes # <<>>
    /\ ioRes' = Tail(ioRes)
    /\ LET res == Head(ioRes)
       IN  IF res.op = "Write"
           THEN /\ acked' = acked \cup {res.key}
                /\ UNCHANGED <<rd, got>>
           ELSE /\ got' = [rd EXCEPT !.value = cache.entries[res.slot].value,
                                     !.never = (wrote[res.key] = NoValue)]
                /\ rd' = NoRead
                /\ acked' = acked
    /\ UNCHANGED <<bufVars, ioReq, worker, disk, clientVars, histVars, wn, wrote,
                   startVars, laneVars, cacheVars>>

NextStorage ==
    \/ start_assert
    \/ start_spawn
    \/ \E c \in Clients, v \in Values : WriterSend(c, v)
    \/ \E k \in Keys : ReaderSend(k)
    \/ MainRecv
    \/ \E w \in Workers : WorkerRecv(w)
    \/ \E w \in Workers : WorkerExec(w)

SpecStorage == InitStorage /\ [][NextStorage]_vars

\* ------------------------------------------------ accepted configurations
\* the coordinator, the clients and a storage started with any number of
\* threads and any response channel that Storage::start's assertion accepts
InitAccepted ==
    \E n \in 1 .. NWorkers, cap \in Caps :
        start_precondition(n, cap) /\ InitWith(n, cap) /\ LaneInit(Capacity) /\ CacheInit(Capacity)

SpecAccepted == InitAccepted /\ [][Next]_vars

\* ------------------------------------------------ state functions of the claims
\* the clients that were sent a handle for k and have not yet sent Unlock(k)
Holders(k) == {c \in Clients : cpc[c] \in {"granted", "unlocking"} /\ ckey[c] = k}

Range(s) == {s[i] : i \in 1 .. Len(s)}

\* storage requests emitted and not yet executed by a worker
Executing == Range(ioReq) \cup {worker[w] : w \in {x \in Workers : worker[x] # Idle}}

\* storage requests emitted whose completion the coordinator has not yet handled
Outstanding == Executing \cup Range(ioRes)

\* the coordinator died: a panic, or a send that can never complete
Dead == bpc \in {"panicked", "blocked"}

\* start() has returned and the storage workers have executed every request
Stopped == bpc = "returned" /\ Executing = {}

\* ------------------------------------------------ claims
\* C1: for every key at most one client has been sent an entry handle and has
\* not yet sent Unlock.
C1_MutualExclusion == \A k \in Keys : Cardinality(Holders(k)) <= 1

\* C1 witness: one client holds a key while another waits for the same key
C1_Witness ==
    \E c1, c2 \in Clients :
        /\ c1 # c2
        /\ cpc[c1] \in {"granted", "unlocking"}
        /\ cpc[c2] = "waiting"
        /\ ckey[c1] = ckey[c2]

\* C2: handles for a key are granted in the order in which the Lock requests
\* for the key were received: a waiting client is granted only when it is the
\* oldest ungranted request of its key, and a Lock is granted at once only when
\* no older request of the key is ungranted.
C2_FifoPerKey ==
    [][\A c \in Clients :
          (cpc[c] # "granted" /\ cpc'[c] = "granted") =>
              IF cpc[c] = "waiting"
              THEN pending[ckey[c]] # <<>> /\ Head(pending[ckey[c]]) = <<c, cn[c]>>
              ELSE pending[ckey'[c]] = <<>>]_vars

\* C2 witness: a client that queued behind a writeback placeholder (its Lock
\* cancelled the eviction) was granted on the Write completion
C2_Witness ==
    \E c \in Clients :
        /\ cpc[c] = "granted"
        /\ via[c] = "write"
        /\ ~cache.entries[chandle[c]].evicting
        /\ ~\E r \in Outstanding : r.slot = chandle[c]

\* C3: after start() has returned, the stored record of every key is the value
\* left by the last critical section on it that set dirty (0 if there was none).
C3_Durability == Stopped => \A k \in Keys : disk[k] = lastDirty[k]

\* C3 witness: start() returned, one written key was evicted during the run and
\* another written key was still resident at shutdown
C3_Witness ==
    /\ Stopped
    /\ \E k1, k2 \in Keys :
          /\ lastDirty[k1] > 0 /\ ~contains(cache, k1)
          /\ lastDirty[k2] > 0 /\ contains(cache, k2)

\* C4: after shutdown the stored value of every key is the number of increment
\* sections executed on it.
C4_NoLostUpdates == Stopped => \A k \in Keys : disk[k] = count[k]

\* C4 witness: every client ran a section, all of them incremented the same key,
\* and start() returned
C4_Witness ==
    /\ Stopped
    /\ \A c \in Clients : cn[c] >= 1
    /\ \E k \in Keys : count[k] = TotalOps

\* C5: the value a client reads through its handle is the value left at the
\* previous Unlock of the key (the stored value if there was none).
C5_ReadYourWrites ==
    [][\A c \in Clients :
          (cpc[c] = "granted" /\ cpc'[c] = "unlocking") =>
              cache.entries[chandle[c]].value = left[ckey[c]]]_vars

\* C6: no client holds a handle to a cell while a storage request pointing at
\* that cell is emitted and not yet executed.
C6_ExclusiveCell ==
    \A c \in Clients :
        cpc[c] \in {"granted", "unlocking"} =>
            ~\E r \in Executing : r.slot = chandle[c]

\* C7: while a storage request on a slot is outstanding the slot is neither
\* freed nor given to another key.
C7_SlotNonRecycling ==
    \A r \in Outstanding : cache.keys[r.key] = r.slot

\* C8: a Lock the coordinator received is answered: while a client waits for
\* its handle the coordinator has neither panicked nor blocked forever.
C8_LockLiveness == \A c \in Clients : cpc[c] = "waiting" => ~Dead

\* C9: once every client sender is dropped, start() goes on to return: the
\* coordinator has neither panicked nor blocked forever.
C9_ShutdownTerminates == (\A c \in Clients : cpc[c] = "done") => ~Dead

\* C10: at most Threshold slots have their evicting flag set.
C10_EvictionBound == n_evicting(cache) <= Threshold

\* the keys that are resident in the cache
resident(ch) == {k \in Keys : contains(ch, k)}

WriteCompletion(k) ==
    /\ bpc \in {"main", "drain"}
    /\ ioRes # <<>> /\ ioRes' = Tail(ioRes)
    /\ Head(ioRes).op = "Write" /\ Head(ioRes).key = k

\* C12: a Lock received while the placeholder heads the key's queue clears the
\* evicting flag and leaves the key resident; the Write completion then grants
\* a waiting client of the key, issues no Read, leaves the key resident (no
\* evicting_done) and calls evicting_new for a replacement victim.
C12_TouchCancelsEviction ==
    [][\A k \in Keys :
          /\ (k \in relock' /\ k \notin relock) =>
                 /\ contains(cache', k)
                 /\ ~cache'.entries[cache'.keys[k]].evicting
          /\ (WriteCompletion(k) /\ k \in relock) =>
                 /\ \E c \in Clients :
                        cpc[c] = "waiting" /\ ckey[c] = k /\ cpc'[c] = "granted"
                 /\ \A i \in 1 .. Len(ioReq') : ioReq'[i].op = "Write"
                 /\ contains(cache', k)
                 /\ cache' = evicting_new(cache).cache]_vars

\* the step is the dequeue of a failed completion by the event loop of start()
\* while other storage requests are still in flight
FailedCompletion ==
    /\ bpc = "main"
    /\ ioRes # <<>> /\ ioRes' = Tail(ioRes)
    /\ ~Head(ioRes).ok
    /\ Executing # {} \/ Len(ioRes) > 1

\* C13: on dequeuing a failed completion in the event loop the coordinator
\* enters a state in which it grants no lock and drains the completions still
\* in flight before it exits: it does not die on the spot.
C13_IoFailureDrains ==
    [][FailedCompletion =>
          /\ bpc' = "drain"
          /\ \A c \in Clients : cpc'[c] = "granted" => cpc[c] = "granted"]_vars

\* the response r answers the request q: same op tag, same key
Answers(r, q) == r.op = q.op /\ r.key = q.key

\* C14: a worker that took a request leaves it only by sending one response
\* with the request's op tag and key, and a response appears on the response
\* channel only as the answer of a worker to the request it took.
C14_RequestResponsePairing ==
    [][/\ \A w \in Workers :
             (worker[w] # Idle /\ worker'[w] # worker[w]) =>
                 /\ worker'[w] = Idle
                 /\ Len(ioRes') = Len(ioRes) + 1
                 /\ SubSeq(ioRes', 1, Len(ioRes)) = ioRes
                 /\ Answers(ioRes'[Len(ioRes')], worker[w])
       /\ Len(ioRes') > Len(ioRes) =>
             /\ Len(ioRes') = Len(ioRes) + 1
             /\ Cardinality({w \in Workers : worker[w] # Idle /\ worker'[w] = Idle}) = 1
       /\ \A w \in Workers :
             (worker[w] = Idle /\ worker'[w] # Idle) =>
                 ioReq # <<>> /\ worker'[w] = Head(ioReq) /\ ioReq' = Tail(ioReq)]_vars

\* C14 witness: a response of one worker is on the channel while two other
\* workers are executing requests
C14_Witness ==
    /\ ioRes # <<>>
    /\ Cardinality({w \in Workers : worker[w] # Idle}) >= 2

\* a worker completes the Write of key k
ExecWrite(w, k) ==
    /\ worker[w].op = "Write" /\ worker[w].key = k
    /\ worker'[w] = Idle

\* C15: storage round trip.  A Read(k) that was requested after the completion
\* of Write(k, v) was received delivers v into the caller's cell, whatever the
\* writers of the other keys are doing meanwhile; and the record of a key
\* changes only when a worker executes a Write of that very key, which leaves
\* in it the value of the writer's cell.
C15_StorageRoundTrip ==
    [][/\ (got'.some /\ got'.after) => got'.value = wrote'[got'.key]
       /\ \A k \in Keys :
             disk'[k] # disk[k] =>
                \E w \in Workers : ExecWrite(w, k)
                                    /\ disk'[k] = cache.entries[worker[w].slot].value]_vars

\* a nonzero value read back while the Write of another key is still in flight
C15_Witness ==
    /\ got.some /\ got.after /\ got.value = MaxValue
    /\ \E k \in Keys \ {got.key} : wrote[k] # NoValue /\ k \notin acked /\ disk[k] # wrote[k]
\* a worker completes the Read of key k
ExecRead(w, k) ==
    /\ worker[w].op = "Read" /\ worker[w].key = k
    /\ worker'[w] = Idle
    /\ Len(ioRes') = Len(ioRes) + 1 /\ ioRes'[Len(ioRes')].ok

\* the Read completion of key k hands client c its handle
GrantedByRead(c, k) ==
    /\ cpc[c] = "waiting" /\ ckey[c] = k
    /\ cpc'[c] = "granted" /\ via'[c] = "read"

C17_StartPrecondition ==
    [][/\ (spc = "assert" /\ spc' # "assert") =>
             IF n_threads > 1 \/ (n_threads = 1 /\ res_cap = NoCap)
             THEN spc' = "spawn"
             ELSE spc' = "panicked"
       /\ spawned' > 0 => (n_threads > 1 \/ (n_threads = 1 /\ res_cap = NoCap))
       /\ spc' = "panicked" =>
             /\ spawned' = 0
             /\ \A w \in Workers : worker'[w] = Idle
             /\ ioRes' = <<>> /\ stored' = {}]_vars

\* one thread and a bounded response channel: the assertion failed while a
\* request was waiting to be received
C17_Witness ==
    /\ spc = "panicked" /\ n_threads = 1 /\ res_cap # NoCap
    /\ ioReq # <<>>
\* C18: in-flight / queue-head agreement.  While the event loop runs, every key
\* of io_req_keys has a waiter queue, and the head of that queue is a client
\* slot if the key's outstanding request is a Read and the placeholder if it
\* is a Write.
C18_QueueHeadAgreement ==
    bpc \in {"main", "drain"} =>
        \A k \in io_req_keys :
            /\ k \in DOMAIN data_res_queues
            /\ data_res_queues[k] # <<>>
            /\ \A r \in Outstanding :
                  r.key = k =>
                     IF r.op = "Read" THEN front(data_res_queues[k]) # None
                                      ELSE front(data_res_queues[k]) = None
\* the step is the handling of the completion of a Read of key k by handle_io_res
ReadCompletion(k) ==
    /\ bpc \in {"main", "drain"}
    /\ ioRes # <<>> /\ ioRes' = Tail(ioRes)
    /\ Head(ioRes).op = "Read" /\ Head(ioRes).key = k

\* C19: a Read completion finds its client.  When the completion of Read(k) is
\* handled, a queue for k exists and its head is a client slot, so the
\* handler does not reach unreachable!().
C19_ReadFindsClient ==
    [][\A k \in Keys :
          ReadCompletion(k) =>
             /\ k \in DOMAIN data_res_queues
             /\ data_res_queues[k] # <<>>
             /\ front(data_res_queues[k]) # None
             /\ bpc' # "panicked"]_vars

\* C20: a Write completion pops its placeholder.  When the completion of
\* Write(k) is handled during the event loop, a queue for k exists and its
\* head, which the handler pops, is the placeholder and not a client slot.
C20_WritePopsPlaceholder ==
    [][\A k \in Keys :
          WriteCompletion(k) =>
             /\ k \in DOMAIN data_res_queues
             /\ data_res_queues[k] # <<>>
             /\ front(data_res_queues[k]) = None]_vars

\* a client holds a handle that the Write branch sent after popping the placeholder
C20_Witness ==
    \E c \in Clients : cpc[c] = "granted" /\ via[c] = "write"

\* the Write requests of key k emitted whose completion was not yet handled
WritesOutstanding(k) ==
    LET IsW(r) == r.op = "Write" /\ r.key = k
    IN  Len(SelectSeq(ioReq, IsW)) + Len(SelectSeq(ioRes, IsW))
           + Cardinality({w \in Workers : IsW(worker[w])})

\* the writeback placeholders in the waiter queue of key k
Placeholders(k) ==
    IF k \in DOMAIN data_res_queues
    THEN Len(SelectSeq(data_res_queues[k], LAMBDA e : e = None))
    ELSE 0

UnlockHandled(c) == cpc[c] = "unlocking" /\ cpc'[c] = "idle"

\* C22: Unlock pops the caller.  When the coordinator handles the Unlock(k) of
\* a client that holds k, the head of k's queue, which the handler pops, is
\* that client's own slot: not the placeholder, not another client's slot.
C22_UnlockPopsCaller ==
    [][\A c \in Clients :
          UnlockHandled(c) =>
             /\ ckey[c] \in DOMAIN data_res_queues
             /\ data_res_queues[ckey[c]] # <<>>
             /\ front(data_res_queues[ckey[c]]) = <<c, cn[c]>>]_vars

\* the keys of the storage requests emitted whose completion was not yet handled
OutstandingKeys == {r.key : r \in Outstanding}

\* C23: in-flight set accuracy.  In the event loop and in the drain phase
\* io_req_keys is exactly the set of keys with a storage request emitted and
\* not yet answered, and no key has a Read and a Write outstanding together;
\* so no completion is outstanding when write_back starts, and the completion
\* write_back receives is that of the Write it has just sent.
C23_InFlightAccuracy ==
    /\ bpc \in {"main", "drain"} =>
          /\ io_req_keys = OutstandingKeys
          /\ \A r1, r2 \in Outstanding : r1.key = r2.key => r1.op = r2.op
    /\ (bpc = "write_back" /\ ~wbWait) => Outstanding = {}
    /\ (bpc = "write_back" /\ wbWait) =>
          \A r \in Outstanding :
              r.op = "Write" /\ r.key = cache.entries[Head(wb)].key

\* the step selects slot i as eviction victim (reclaim sets its evicting flag)
VictimSelected(i) ==
    /\ i \in 1 .. Len(cache.entries)
    /\ ~cache.entries[i].evicting
    /\ cache'.entries[i].evicting

\* the step emits a Write of the entry in slot i
WriteEmitted(i) ==
    \E j \in (Len(ioReq) + 1) .. Len(ioReq') :
        ioReq'[j] = IoRequest_write(cache.entries[i].key, i)

\* C24: writeback iff dirty.  When a slot is selected as eviction victim, by
\* get_with_evicting or by evicting_new, a Write of its key is emitted if and
\* only if the entry's dirty flag is set.
C24_WritebackIffDirty ==
    [][\A i \in 1 .. Capacity :
          VictimSelected(i) => (WriteEmitted(i) <=> cache.entries[i].dirty)]_vars

\* C25: queue deletion.  A waiter queue that the handling of Unlock(k) or of a
\* Write(k) completion leaves empty is removed from the map: between events
\* data_res_queues contains no empty queue.
C25_NoEmptyQueue ==
    \A k \in DOMAIN data_res_queues : data_res_queues[k] # <<>>

\* the step is a handler that calls res.send(..) on the reply channel of the
\* client slot e of key k: the Unlock and Write branches send to the slot
\* behind the popped head, the Read branch to the head
SendsTo(k, e) ==
    /\ k \in DOMAIN data_res_queues /\ contains(cache, k) /\ e # None
    /\ \/ /\ (\E c \in Clients : UnlockHandled(c) /\ ckey[c] = k) \/ WriteCompletion(k)
          /\ Len(data_res_queues[k]) >= 2 /\ e = data_res_queues[k][2]
       \/ /\ ReadCompletion(k)
          /\ data_res_queues[k] # <<>> /\ e = front(data_res_queues[k])

\* C26: exactly one grant per Lock.  Whenever a handler sends an entry handle
\* on the reply channel of a client slot, on Unlock, on a Read completion or on
\* a Write completion, that slot was not granted before: its client is still
\* waiting on that channel.
C26_OneGrantPerLock ==
    [][\A k \in Keys, c \in Clients, n \in 1 .. MaxOps :
          SendsTo(k, <<c, n>>) => Receiving(<<c, n>>)]_vars

\* the keys reclaim can select: resident, evicting flag clear
Reclaimable(ch) == {k \in resident(ch) : ~ch.entries[ch.keys[k]].evicting}

\* C27: victims always have a queue.  Every resident key that reclaim can
\* select has a queue, possibly empty, in data_res_queues, so the lookup of
\* the victim's queue in request_eviction never fails.
C27_VictimHasQueue ==
    Reclaimable(cache) \subseteq DOMAIN data_res_queues

\* a key nobody holds or waits for is resident and selectable, with its empty
\* queue still in the map, while the index is full
C27_Witness ==
    \E k \in Reclaimable(cache) :
        /\ data_res_queues[k] = <<>>
        /\ Len(cache.entries) = Capacity
        /\ bpc = "main"

\* the coordinator is inside a handler or write_back, in io_req_tx.send
SendingRequest == ioReq # <<>> /\ bpc \in {"main", "drain", "write_back"}

\* C28: no send/send deadlock in accepted configurations.  With any number of
\* threads and any response channel that Storage::start accepts, the
\* coordinator is never blocked sending a storage request while every storage
\* worker holds a request whose completion it cannot send.
C28_NoSendSendDeadlock ==
    ~(/\ SendingRequest
      /\ \A w \in 1 .. spawned : worker[w] # Idle /\ ~CanSendRes)

\* ------------------------------------------------ LruLane::index, called repeatedly
\* lane.index(key), cache.rs 173-196; used is the order of last use of every key
\* ever passed, kept apart from the lane's own list
LaneIndex(key) ==
    /\ ~lane.panicked
    /\ LET r == LruLane_index(lane, key)
       IN /\ lane' = r.lane
          /\ ret' = [key |-> key, i |-> r.i, uninitialized |-> r.uninitialized,
                     calls |-> 1 - ret.calls]
    /\ used' = Append(Remove(used, key), key)
    /\ UNCHANGED <<bufVars, ioVars, clientVars, histVars, callerVars, startVars, cacheVars>>

InitLane ==
    /\ InitWith(NWorkers, NoCap)
    /\ \E capacity \in LaneCaps : LaneInit(capacity) /\ CacheInit(capacity)

NextLane == \E key \in LaneKeys : LaneIndex(key)

SpecLane == InitLane /\ [][NextLane]_vars

\* the resident key whose last use is the oldest
LeastRecentlyUsed(keys) ==
    used[CHOOSE n \in 1 .. Len(used) :
            /\ used[n] \in DOMAIN keys
            /\ \A m \in 1 .. n - 1 : used[m] \notin DOMAIN keys]

\* a call of index(key) returns
Indexed(key) == ret'.calls # ret.calls /\ ret'.key = key

\* C29: LruLane::index assigns slots in LRU fashion. A call with a resident
\* key returns (its slot, false), leaves the key map alone and makes the slot
\* the head of the list; a call with an absent key while fewer than capacity
\* slots exist returns (the number of slots allocated so far, true); any other
\* call returns (the slot of the least recently used resident key, false),
\* removes exactly that key from the key map and maps the new key to the slot.
\* No call panics.
C29_LruSlotAssignment ==
    [][\A key \in LaneKeys : Indexed(key) =>
          /\ ~lane'.panicked
          /\ key \in DOMAIN lane.keys =>
                /\ ret'.i = lane.keys[key]
                /\ ~ret'.uninitialized
                /\ lane'.head = ret'.i
                /\ lane'.keys = lane.keys
          /\ (key \notin DOMAIN lane.keys /\ entries_len(lane) < lane.capacity) =>
                /\ ret'.i = entries_len(lane)
                /\ ret'.uninitialized
          /\ (key \notin DOMAIN lane.keys /\ entries_len(lane) >= lane.capacity) =>
                LET lru == LeastRecentlyUsed(lane.keys)
                IN /\ ret'.i = lane.keys[lru]
                   /\ ~ret'.uninitialized
                   /\ DOMAIN lane'.keys = (DOMAIN lane.keys \ {lru}) \cup {key}
                   /\ \A k \in DOMAIN lane.keys \ {lru} : lane'.keys[k] = lane.keys[k]
                   /\ lane'.keys[key] = ret'.i]_vars

\* keys 0, 1, 2 filled slots 0, 1, 2 in some order of use that left slot 1
\* the least recently used, and a fourth key has just taken slot 1
C29_Witness ==
    /\ lane.capacity = 3
    /\ Len(used) = NLaneKeys
    /\ ret = [key |-> used[NLaneKeys], i |-> 1, uninitialized |-> FALSE, calls |-> 1]
    /\ DOMAIN lane.keys = {used[2], used[3], used[4]}
    /\ lane.keys[used[3]] = 0
    /\ lane.keys[used[4]] = 1

\* the keys stored in the slots the iterator yields, in its order
TraversedKeys(l) ==
    [n \in 1 .. Len(LruLaneIterator(l)) |-> l.entries[LruLaneIterator(l)[n]].key]

\* the resident keys, least recently used first
ResidentByUse(l) == SelectSeq(used, LAMBDA k : k \in DOMAIN l.keys)

\* C30: the LRU list and the key map agree. After any sequence of index calls
\* the key map has at most capacity keys, maps distinct keys to distinct
\* slots, every mapped slot stores its key, and the traversal from tail along
\* the prev links visits exactly the mapped slots, each once, from the least
\* to the most recently used, ending at head.
C30_ListAgreesWithMap ==
    LET slots == LruLaneIterator(lane)
    IN /\ Cardinality(DOMAIN lane.keys) <= lane.capacity
       /\ \A j, k \in DOMAIN lane.keys : j # k => lane.keys[j] # lane.keys[k]
       /\ \A k \in DOMAIN lane.keys :
              /\ lane.keys[k] \in DOMAIN lane.entries
              /\ lane.entries[lane.keys[k]].key = k
       /\ {slots[n] : n \in 1 .. Len(slots)} = {lane.keys[k] : k \in DOMAIN lane.keys}
       /\ Len(slots) = Cardinality(DOMAIN lane.keys)
       /\ TraversedKeys(lane) = ResidentByUse(lane)
       /\ IF slots = <<>> THEN lane.head = Nil /\ lane.tail = Nil
                          ELSE slots[Len(slots)] = lane.head

\* after an eviction, a call has touched the slot in the middle of a full list
\* of three: the traversal is no longer in slot order, and the next link of
\* the tail, which no traversal follows, is stale
C30_Witness ==
    /\ lane.capacity = 3
    /\ Len(used) = NLaneKeys
    /\ ret.i = 2 /\ ~ret.uninitialized
    /\ LruLaneIterator(lane) = <<1, 0, 2>>
    /\ lane.entries[1].next # 0

\* ------------------------------------------------ SingleCache and the guards of a cache
\* everything but the lane and the entries
restVars == <<bufVars, ioVars, clientVars, histVars, callerVars, startVars>>

\* a method called through the guard thread t holds ends with outcome r: a
\* panic ends the thread with the mutex held (poisoned)
GuardCall(t, op, r) ==
    /\ thread[t].pc = "holding"
    /\ entries' = [entries EXCEPT ![thread[t].i] = r.entry]
    /\ thread' = IF r.panicked THEN [thread EXCEPT ![t].pc = "panicked"] ELSE thread
    /\ call' = [op |-> op, i |-> thread[t].i, key |-> thread[t].key,
                panicked |-> r.panicked, calls |-> 1 - call.calls]
    /\ UNCHANGED <<restVars, laneVars>>

\* guard.as_ptr(), and a store of v through the pointer
GuardAsPtr(t, v) == GuardCall(t, "as_ptr", Entry_as_ptr(entries[thread[t].i], v))

\* guard.as_ref()
GuardAsRef(t) == GuardCall(t, "as_ref", Entry_as_ref(entries[thread[t].i]))

\* *guard.as_mut() = v
GuardAsMut(t, v) == GuardCall(t, "as_mut", Entry_as_mut(entries[thread[t].i], v))

\* the guard goes out of scope: the mutex of the slot is released
GuardDrop(t) ==
    /\ thread[t].pc = "holding"
    /\ entries' = [entries EXCEPT ![thread[t].i].locked = FALSE]
    /\ thread' = [thread EXCEPT ![t] = NoThread]
    /\ UNCHANGED <<restVars, laneVars, call>>

\* thread t has index's answer (i, uninitialized) for key and takes the mutex
\* of slot i: the rest of LruCache::lock, and of SingleCache::lock with (0, false)
LockSlot(t, key, i, uninitialized) ==
    /\ ~entries[i].locked
    /\ LET taken == [entries[i] EXCEPT !.locked = TRUE]
           reset == IF uninitialized THEN [taken EXCEPT !.state = Uninitialized]
                                     ELSE taken
           r == prepare_entry(reset, key)
       IN /\ entries' = [entries EXCEPT ![i] = r.entry]
          /\ thread' = [thread EXCEPT ![t] =
                            [pc |-> IF r.panicked THEN "panicked" ELSE "holding",
                             key |-> key, i |-> i, uninitialized |-> uninitialized]]
          /\ call' = [op |-> "lock", i |-> i, key |-> key, panicked |-> r.panicked,
                      calls |-> 1 - call.calls]
    /\ UNCHANGED <<restVars, laneVars>>

\* SingleCache::lock(key)
SingleLock(t, key) ==
    /\ thread[t].pc = "idle"
    /\ LockSlot(t, key, 0, FALSE)

\* SingleCache::new()
InitSingle ==
    /\ InitWith(NWorkers, NoCap)
    /\ LaneInit(Capacity)
    /\ CacheInit(1)

NextSingle ==
    \/ \E t \in Threads, key \in LaneKeys : SingleLock(t, key)
    \/ \E t \in Threads, v \in EntryValues : GuardAsPtr(t, v)
    \/ \E t \in Threads : GuardAsRef(t)
    \/ \E t \in Threads, v \in EntryValues : GuardAsMut(t, v)
    \/ \E t \in Threads : GuardDrop(t)

SpecSingle == InitSingle /\ [][NextSingle]_vars

\* a method of the Entry of slot i is called (and returns or panics)
Called(op, i) == call'.calls # call.calls /\ call'.op = op /\ call'.i = i

\* C31: the state of an Entry on lock (prepare_entry, through SingleCache::lock).
\* Locking the slot for key k panics exactly if the entry is Unloaded or Stale;
\* otherwise the entry becomes Unloaded if it was Uninitialized or Fresh for
\* another key, Stale(old key) if it was Dirty for another key, stays as it is
\* if it was Fresh or Dirty for k, and its key is k afterwards.
C31_StateOnLock ==
    [][Called("lock", 0) =>
          LET old == entries[0]
              new == entries'[0]
              k == call'.key
          IN /\ call'.panicked <=> old.state.tag \in {"Unloaded", "Stale"}
             /\ call'.panicked => new.state = old.state /\ new.key = old.key
             /\ old.state = Uninitialized => new.state = Unloaded
             /\ (old.state = Fresh /\ old.key # k) => new.state = Unloaded
             /\ (old.state = Dirty /\ old.key # k) => new.state = Stale(old.key)
             /\ (old.state \in {Fresh, Dirty} /\ old.key = k) =>
                    new.state = old.state /\ new.value = old.value
             /\ ~call'.panicked => new.key = k]_vars

\* as at the end of the test single_cache_state_changes: a lock of key 3 has
\* found the entry Dirty for key 2
C31_Witness ==
    /\ call.op = "lock" /\ call.key = 3 /\ ~call.panicked
    /\ entries[0].state = Stale(2)
    /\ entries[0].key = 3

\* ------------------------------------------------ an Entry on its own
\* any Entry, owned by thread 1: state and value are public fields; a Stale
\* entry remembers a key other than its own
InitEntry ==
    /\ InitWith(NWorkers, NoCap)
    /\ LaneInit(Capacity)
    /\ \E key \in LaneKeys, v \in EntryValues :
          \E state \in {Uninitialized, Unloaded, Fresh, Dirty}
                           \cup {Stale(k) : k \in LaneKeys \ {key}} :
          entries = [i \in {0} |->
                        [key |-> key, value |-> v, state |-> state, locked |-> TRUE]]
    /\ thread = [t \in Threads |->
                    IF t = 1 THEN [pc |-> "holding", key |-> entries[0].key, i |-> 0,
                                   uninitialized |-> FALSE]
                             ELSE NoThread]
    /\ call = NoCall

NextEntry ==
    \/ \E v \in EntryValues : GuardAsPtr(1, v)
    \/ GuardAsRef(1)
    \/ \E v \in EntryValues : GuardAsMut(1, v)

SpecEntry == InitEntry /\ [][NextEntry]_vars

\* C32: dirty only from loaded. The state of an Entry becomes Dirty only by an
\* as_mut on an entry that is Fresh, and as_mut returns only on an entry that
\* is Fresh or Dirty; as_ref and as_mut on an Uninitialized, Unloaded or Stale
\* entry panic and leave the entry as it was; as_ptr returns exactly from
\* Unloaded, Dirty or Stale and then leaves the entry Fresh.
C32_DirtyOnlyFromLoaded ==
    [][LET old == entries[0]
           new == entries'[0]
           unloaded == old.state.tag \in {"Uninitialized", "Unloaded", "Stale"}
       IN /\ (new.state = Dirty /\ old.state # Dirty) =>
                 Called("as_mut", 0) /\ ~call'.panicked /\ old.state = Fresh
          /\ (Called("as_mut", 0) /\ ~call'.panicked) =>
                 old.state \in {Fresh, Dirty} /\ new.state = Dirty
          /\ ((Called("as_ref", 0) \/ Called("as_mut", 0)) /\ unloaded) =>
                 call'.panicked /\ new = old
          /\ Called("as_ref", 0) => new = old
          /\ Called("as_ptr", 0) =>
                 /\ ~call'.panicked <=> old.state.tag \in {"Unloaded", "Dirty", "Stale"}
                 /\ ~call'.panicked => new.state = Fresh
                 /\ call'.panicked => new = old]_vars

\* an entry loaded through as_ptr was then written through as_mut
C32_Witness ==
    /\ call = [op |-> "as_mut", i |-> 0, key |-> entries[0].key, panicked |-> FALSE,
               calls |-> 0]
    /\ entries[0].state = Dirty
    /\ entries[0].value = 1

\* ------------------------------------------------ LruCache::lock by several threads
\* the first statement of LruCache::lock: the lane mutex is taken, index(key)
\* is called, and the mutex is released at the end of the statement
CacheIndex(t, key) ==
    /\ thread[t].pc = "idle"
    /\ ~lane.panicked
    /\ LET r == LruLane_index(lane, key)
       IN /\ lane' = r.lane
          /\ thread' = [thread EXCEPT ![t] =
                            [pc |-> IF r.lane.panicked THEN "panicked" ELSE "indexed",
                             key |-> key, i |-> r.i,
                             uninitialized |-> r.uninitialized]]
    /\ UNCHANGED <<restVars, ret, used, entries, call>>

\* the rest of LruCache::lock: the mutex of slot i is taken, the entry is
\* reset if index said uninitialized, and prepared; the guard is returned
CacheLock(t) ==
    /\ thread[t].pc = "indexed"
    /\ LockSlot(t, thread[t].key, thread[t].i, thread[t].uninitialized)

\* the capacities and the keys an LruCache is exercised with
CacheMaxCap == 2
CacheCaps == 1 .. CacheMaxCap
NCacheKeys == 3
CacheKeys == 0 .. NCacheKeys - 1

\* LruCache::new(capacity)
InitCache ==
    /\ InitWith(NWorkers, NoCap)
    /\ \E capacity \in CacheCaps : LaneInit(capacity) /\ CacheInit(capacity)

\* the entry thread t holds the guard of is loaded: as_ref and as_mut return
Loaded(t) ==
    /\ thread[t].pc = "holding"
    /\ entries[thread[t].i].state \in {Fresh, Dirty}

\* the entry thread t holds the guard of can be loaded or written back: as_ptr
\* returns
Loadable(t) ==
    /\ thread[t].pc = "holding"
    /\ entries[thread[t].i].state.tag \in {"Unloaded", "Dirty", "Stale"}

\* the threads use their guards as the methods of Entry demand: an entry that
\* lock left Unloaded or Stale is first loaded through as_ptr, a loaded entry
\* is read, written or written back, and only a loaded entry is released
NextCache ==
    \/ \E t \in Threads, key \in CacheKeys : CacheIndex(t, key)
    \/ \E t \in Threads : CacheLock(t)
    \/ \E t \in Threads, v \in EntryValues : Loadable(t) /\ GuardAsPtr(t, v)
    \/ \E t \in Threads : Loaded(t) /\ GuardAsRef(t)
    \/ \E t \in Threads, v \in EntryValues : Loaded(t) /\ GuardAsMut(t, v)
    \/ \E t \in Threads : Loaded(t) /\ GuardDrop(t)

SpecCache == InitCache /\ [][NextCache]_vars

\* LruCache::lock returns its guard to thread t
LockReturns(t) == thread[t].pc = "indexed" /\ thread'[t].pc = "holding"

\* C33: no dirty value is dropped by LruCache under concurrency. In every
\* interleaving of lock calls, a slot that is Dirty for key k stays Dirty for
\* k, or becomes Stale(k) under another key, or becomes Fresh through as_ptr,
\* and never Uninitialized or Unloaded; and when lock(key) returns, the slot
\* its guard protects is the slot the lane maps key to.
C33_NoDirtyDropped ==
    [][/\ \A i \in DOMAIN entries :
             entries[i].state = Dirty =>
                 \/ entries'[i].state = Dirty /\ entries'[i].key = entries[i].key
                 \/ /\ entries'[i].state = Stale(entries[i].key)
                    /\ entries'[i].key # entries[i].key
                 \/ /\ entries'[i].state = Fresh
                    /\ entries'[i].key = entries[i].key
                    /\ Called("as_ptr", i)
       /\ \A t \in Threads :
             LockReturns(t) =>
                 /\ thread'[t].key \in DOMAIN lane'.keys
                 /\ lane'.keys[thread'[t].key] = thread'[t].i]_vars

====
